---- MODULE Spec2Model ----
(***************************************************************************)
(* Model of the Modbus device-connection manager (ModbusService) with its  *)
(* validators and its configuration store.                                  *)
(*                                                                          *)
(* Strings that the code inspects character by character (the host) are     *)
(* sequences of character codes: 0..9 are the digits, DOT is '.', and       *)
(* LETTER is any other character.                                           *)
(*                                                                          *)
(* Scheduling: Node's event loop.  A handler runs without interruption up   *)
(* to an await of network I/O or of a timer; the continuation of an await   *)
(* on an already settled value runs in the same turn, before any I/O or     *)
(* timer callback, so it belongs to the same step.                          *)
(***************************************************************************)
EXTENDS Integers, Sequences, FiniteSets, TLC

VARIABLES
    config,            \* ModbusService.config
    saved,             \* the record in modbus-config.json (empty: no usable file)
    client,            \* ModbusService.client: 0 is null, else a handle id
    hs,                \* the transport handles (ModbusRTU objects) somebody still refers to
    orphans,           \* number of open handles nothing refers to any more
    connectionStatus,  \* ModbusService.connectionStatus
    reconnectAttempts, \* ModbusService.reconnectAttempts
    refuseAll,         \* the device fails every transport connect
    counting,          \* the per-call counters of connects, requests and delays are kept
    pc,                \* per caller: where its call is suspended
    call,              \* per caller: the call in flight and its locals
    calls,             \* number of read/write/test calls invoked so far
    issueLog,          \* <<call id, operation>> in the order of the calls' first register request
    lastUpdate         \* the last updateConfig call: its input and outcome

vars == <<config, saved, client, hs, orphans, connectionStatus, reconnectAttempts,
          refuseAll, counting, pc, call, calls, issueLog, lastUpdate>>

----------------------------------------------------------------------------
(* Character codes and the hosts used as inputs *)

DOT == 10
LETTER == 11

Host_192_168_1_50 == <<1,9,2,DOT,1,6,8,DOT,1,DOT,5,0>>
Host_10_0_0_5 == <<1,0,DOT,0,DOT,0,DOT,5>>
Host_999_1_1_1 == <<9,9,9,DOT,1,DOT,1,DOT,1>>
Host_0_0_0_0 == <<0,DOT,0,DOT,0,DOT,0>>
Host_255x4 == <<2,5,5,DOT,2,5,5,DOT,2,5,5,DOT,2,5,5>>
Host_1_2_3 == <<1,DOT,2,DOT,3>>
Host_1_2_3_4444 == <<1,DOT,2,DOT,3,DOT,4,4,4,4>>
Host_a_b_c_d == <<LETTER,DOT,LETTER,DOT,LETTER,DOT,LETTER>>
Host_empty == << >>
Host_00_0_0_0 == <<0,0,DOT,0,DOT,0,DOT,0>>
Host_192_168_100_0 == <<1,9,2,DOT,1,6,8,DOT,1,0,0,DOT,0>>
Host_192_168_100_1 == <<1,9,2,DOT,1,6,8,DOT,1,0,0,DOT,1>>
Host_192_168_100_40 == <<1,9,2,DOT,1,6,8,DOT,1,0,0,DOT,4,0>>
Host_192_168_100_255 == <<1,9,2,DOT,1,6,8,DOT,1,0,0,DOT,2,5,5>>
Host_192_168_100_256 == <<1,9,2,DOT,1,6,8,DOT,1,0,0,DOT,2,5,6>>
Host_192_168_101_1 == <<1,9,2,DOT,1,6,8,DOT,1,0,1,DOT,1>>

----------------------------------------------------------------------------
(* IpValidator and SlaveIdValidator *)

IsDigit(c) == c \in 0..9

\* String.prototype.split('.')
RECURSIVE Split(_)
Split(s) ==
    IF \A i \in 1..Len(s) : s[i] # DOT THEN <<s>>
    ELSE LET k == CHOOSE i \in 1..Len(s) :
                      s[i] = DOT /\ \A j \in 1..(i-1) : s[j] # DOT
         IN <<SubSeq(s, 1, k-1)>> \o Split(SubSeq(s, k+1, Len(s)))

\* Number(part) for a string of digits
RECURSIVE DecimalValue(_)
DecimalValue(d) ==
    IF Len(d) = 0 THEN 0
    ELSE 10 * DecimalValue(SubSeq(d, 1, Len(d)-1)) + d[Len(d)]

\* /^(\d{1,3})\.(\d{1,3})\.(\d{1,3})\.(\d{1,3})$/.test(ip)
IpRegexTest(ip) ==
    LET parts == Split(ip)
    IN /\ Len(parts) = 4
       /\ \A i \in 1..4 : /\ Len(parts[i]) \in 1..3
                          /\ \A j \in 1..Len(parts[i]) : IsDigit(parts[i][j])

\* isValidIpFormat without the 0-255 check of the parts
isValidIpFormat_NoRangeCheck(ip) ==
    /\ Len(ip) > 0
    /\ IpRegexTest(ip)
    /\ ip # Host_0_0_0_0
    /\ ip # Host_255x4

isValidIpFormat(ip) ==
    /\ Len(ip) > 0
    /\ IpRegexTest(ip)
    /\ LET parts == Split(ip)
       IN /\ Len(parts) = 4
          /\ \A i \in 1..4 : DecimalValue(parts[i]) >= 0 /\ DecimalValue(parts[i]) <= 255
    /\ ip # Host_0_0_0_0
    /\ ip # Host_255x4

\* isValidModbusIp that also requires 192.168.100.x with x in 1..255
isValidModbusIp_DeviceRange(ip) ==
    /\ isValidIpFormat(ip)
    /\ LET parts == Split(ip)
       IN /\ DecimalValue(parts[1]) = 192
          /\ DecimalValue(parts[2]) = 168
          /\ DecimalValue(parts[3]) = 100
          /\ DecimalValue(parts[4]) >= 1

isValidModbusIp(ip) == isValidIpFormat(ip)

SlaveIdValidator_isValid(slaveId) == slaveId >= 1 /\ slaveId <= 255


----------------------------------------------------------------------------
(* Configuration: DeviceConfig, the stored record, the environment *)

ConfigFields == {"host", "port", "slaveId", "timeout"}

\* the spread with its operands swapped: { ...b, ...a }
Spread_Swapped(a, b) ==
    [f \in (DOMAIN a) \cup (DOMAIN b) |-> IF f \in DOMAIN a THEN a[f] ELSE b[f]]

\* { ...a, ...b } for records given as functions on their own keys
Spread(a, b) ==
    [f \in (DOMAIN a) \cup (DOMAIN b) |-> IF f \in DOMAIN b THEN b[f] ELSE a[f]]

Has(r, f) == f \in DOMAIN r

\* parseInt(s, 10): the value of the leading digits, NaN when there are none
RECURSIVE DigitPrefix(_)
DigitPrefix(s) ==
    IF Len(s) = 0 \/ ~IsDigit(Head(s)) THEN << >>
    ELSE <<Head(s)>> \o DigitPrefix(Tail(s))

parseInt(s) ==
    [nan |-> Len(DigitPrefix(s)) = 0, val |-> DecimalValue(DigitPrefix(s))]

\* savedConfig?.f || (env ? parseInt(env, 10) : null) || dflt
NumberSetting(savedConfig, f, env, name, dflt) ==
    IF Has(savedConfig, f) /\ savedConfig[f] # 0 THEN savedConfig[f]
    ELSE IF Has(env, name) /\ Len(env[name]) > 0
              /\ ~parseInt(env[name]).nan /\ parseInt(env[name]).val # 0
         THEN parseInt(env[name]).val
    ELSE dflt

DefaultPort == 502
DefaultSlaveId == 1
DefaultTimeout == 5000

\* host: savedConfig?.host || env MODBUS_HOST || null; the empty string is null here
loadConfig(savedConfig, env) ==
    [host |-> IF Has(savedConfig, "host") /\ Len(savedConfig.host) > 0
                  THEN savedConfig.host
              ELSE IF Has(env, "MODBUS_HOST") THEN env.MODBUS_HOST
              ELSE Host_empty,
     port |-> NumberSetting(savedConfig, "port", env, "MODBUS_PORT", DefaultPort),
     slaveId |-> NumberSetting(savedConfig, "slaveId", env, "MODBUS_SLAVE_ID", DefaultSlaveId),
     timeout |-> NumberSetting(savedConfig, "timeout", env, "MODBUS_TIMEOUT", DefaultTimeout)]

\* loadConfig throws when no host is configured
loadConfigThrows(savedConfig, env) == Len(loadConfig(savedConfig, env).host) = 0

MinPort == 1
MaxPort == 65535

\* validateConfig without the Slave ID check
validateConfig_NoSlaveCheck(c) ==
    IF ~isValidModbusIp(c.host) THEN "InvalidIp"
    ELSE IF c.port < MinPort \/ c.port > MaxPort THEN "InvalidPort"
    ELSE "ok"

\* validateConfig: "ok", or which check threw (in the order of the code)
validateConfig(c) ==
    IF ~isValidModbusIp(c.host) THEN "InvalidIp"
    ELSE IF ~SlaveIdValidator_isValid(c.slaveId) THEN "InvalidSlaveId"
    ELSE IF c.port < MinPort \/ c.port > MaxPort THEN "InvalidPort"
    ELSE "ok"

\* ConfigStorage.saveConfig: merge into the existing record and stamp it
saveConfig(existing, configToSave) ==
    Spread(Spread(existing, configToSave), [lastUpdated |-> TRUE])

NoRecord == << >>

\* The status object built by the constructor and by updateConfig.
\* lastConnected is the value of the Date object the field refers to: "none"
\* (undefined), "connectTime" (as new Date() made it), "changed"
FreshStatus(c) ==
    [connected |-> FALSE, host |-> c.host, port |-> c.port, slaveId |-> c.slaveId,
     lastError |-> "none", lastConnected |-> "none"]

getConfig == config

----------------------------------------------------------------------------
(* Callers, transport handles, errors *)

Procs == {"c1", "c2"}

\* References to handles are held by this.client and by each call in flight,
\* so this many slots always leave one for `new ModbusRTU()`
Handles == 1..(Cardinality(Procs) + 1)

maxReconnectAttempts == 3
reconnectDelay == 2000

\* A slot that holds no live handle (never created, closed, or failed)
NoHandle == [st |-> "none", host |-> << >>, port |-> 0, unit |-> 0, stale |-> FALSE]

\* error.code of a failed connectTCP
ConnectCodes == {"ECONNREFUSED", "ETIMEDOUT", "EOTHER"}

\* how a register request on an open handle can fail
RequestErrors == {"IllegalAddress", "TimedOut", "ETIMEDOUT"}

\* The error getClient throws for a failed connect, by error.code
ConnectError(code) ==
    CASE code = "ECONNREFUSED" -> "RootCauseRefused"
      [] code = "ETIMEDOUT" -> "RootCauseTimeout"
      [] code = "ENOTFOUND" -> "RootCauseNotFound"
      [] code = "EHOSTUNREACH" -> "RootCauseUnreachable"
      [] OTHER -> "FailedToConnect"

ConnectionErrors ==
    {"RootCauseRefused", "RootCauseTimeout", "RootCauseNotFound",
     "RootCauseUnreachable", "FailedToConnect"}

\* An error message: its template, and the values of the configuration that the
\* template interpolates (a field the template does not mention is empty)
PlainMessage(template) ==
    [template |-> template, host |-> {}, port |-> {}, slaveId |-> {}, timeout |-> {}]

NoMessage == PlainMessage("none")

\* getClient lines 365-403 with the port left out of the refusal text
ConnectMessage_NoPort(code, cfg) ==
    [PlainMessage(ConnectError(code)) EXCEPT !.host = {cfg.host}]

\* getClient lines 365-403: the message of the error thrown for a failed connect
ConnectMessage(code, cfg) ==
    CASE code = "ECONNREFUSED" ->
            [PlainMessage("RootCauseRefused") EXCEPT !.host = {cfg.host},
                                                     !.port = {cfg.port}]
      [] code = "ETIMEDOUT" ->
            [PlainMessage("RootCauseTimeout") EXCEPT !.host = {cfg.host},
                                                     !.timeout = {cfg.timeout}]
      [] code = "ENOTFOUND" ->
            [PlainMessage("RootCauseNotFound") EXCEPT !.host = {cfg.host}]
      [] code = "EHOSTUNREACH" ->
            [PlainMessage("RootCauseUnreachable") EXCEPT !.host = {cfg.host}]
      [] OTHER ->
            [PlainMessage("FailedToConnect") EXCEPT !.host = {cfg.host},
                                                    !.port = {cfg.port}]

\* message.includes('not open') || includes('ECONNREFUSED') || includes('ETIMEDOUT')
MessageNamesConnection(e) == e \in {"ECONNREFUSED", "ETIMEDOUT"}

IsOpen(w, h) == h # 0 /\ w.hs[h].st = "open"

NewCall ==
    [op |-> "none", id |-> 0, phase |-> "none", attempt |-> 0, h |-> 0,
     issued |-> FALSE, nConn |-> 0, nReconn |-> 0, nDelay |-> 0, waited |-> 0,
     nReq |-> 0, nOp |-> 0,
     firstErr |-> "none", connOk |-> FALSE, kind |-> "none", addr |-> 0, qty |-> 0,
     data |-> << >>, resp |-> [success |-> FALSE, type |-> "none", values |-> << >>],
     msg |-> NoMessage, status |-> 0, body |-> "none", res |-> "none"]

\* The state a step of caller p works on: the service's fields and p's locals
World(p) ==
    [p |-> p, counting |-> counting, client |-> client, hs |-> hs, orph |-> orphans, cs |-> connectionStatus,
     ra |-> reconnectAttempts, log |-> issueLog, cfg |-> config,
     L |-> call[p], pc |-> pc[p]]

\* readRegisters' catch, lines 615-633: the two device exceptions it recognises
\* are thrown again as a BadRequestException with a message of its own; every
\* other error goes on as it is
readRegistersCatch(w, res) ==
    IF w.L.op = "read" /\ res = "IllegalAddress" THEN PlainMessage("InvalidAddressForType")
    ELSE IF w.L.op = "read" /\ res = "IllegalValue"
         THEN PlainMessage("InvalidQuantityForAddress")
    ELSE w.L.msg

\* ModbusController: the HTTP status its handlers answer with.  A request the
\* global ValidationPipe rejects never reaches the handler (400); a handler that
\* returns answers 200 to a GET and 201 to a POST; the catch blocks of the read
\* and write handlers answer INTERNAL_SERVER_ERROR whatever was thrown, and
\* testConnection returns its failures
ControllerStatus(op, res) ==
    IF res = "DtoRejected" THEN 400
    ELSE IF op = "test" THEN 201
    ELSE IF res = "ok" THEN (IF op = "read" THEN 200 ELSE 201)
    ELSE 500

\* The body that goes with it: the handler's result, the envelope
\* {success: false, error: message} of a catch block, or the pipe's own body
ControllerBody(op, res) ==
    IF res = "DtoRejected" THEN "pipe"
    ELSE IF op = "test" \/ res = "ok" THEN "result"
    ELSE "envelope"

\* The call returns to its caller (a value or a thrown error), and the
\* controller answers the request
Complete(w, res) ==
    [w EXCEPT !.pc = "idle", !.L.res = res, !.L.h = 0, !.L.phase = "none",
              !.L.attempt = 0, !.L.msg = readRegistersCatch(w, res),
              !.L.status = ControllerStatus(w.L.op, res),
              !.L.body = ControllerBody(w.L.op, res)]

\* disconnect that opens a new connection in place of the one it closed
disconnect_AndReconnect(w) ==
    IF w.client = 0 THEN w
    ELSE [w EXCEPT !.hs = [w.hs EXCEPT ![w.client] =
                              [st |-> "connecting", host |-> w.cfg.host,
                               port |-> w.cfg.port, unit |-> 0, stale |-> FALSE]],
                   !.cs.connected = FALSE]

\* ModbusService.disconnect
disconnect(w) ==
    IF w.client = 0 THEN w
    ELSE [w EXCEPT !.hs = IF IsOpen(w, w.client)
                            THEN [w.hs EXCEPT ![w.client] = NoHandle]
                            ELSE w.hs,
                   !.client = 0,
                   !.cs.connected = FALSE]

\* Who refers to handle h: this.client, the call awaiting its connect, the calls
\* with a request pending on it
Referenced(w, h) ==
    \/ h = w.client
    \/ w.pc \in {"connecting", "request"} /\ w.L.h = h
    \/ \E q \in Procs \ {w.p} : pc[q] \in {"connecting", "request"} /\ call[q].h = h

\* Slots in which `new ModbusRTU()` can place a handle
FreeSlots(w) == {h \in Handles : w.hs[h].st = "none" /\ ~Referenced(w, h)}

\* Open handles that nothing refers to stay open for good; they leave the slots
\* and are counted
Unreferenced(w) == {h \in Handles : w.hs[h].st = "open" /\ ~Referenced(w, h)}

Settled(w) ==
    [w EXCEPT !.orph = @ + Cardinality(Unreferenced(w)),
              !.hs = [h \in Handles |-> IF h \in Unreferenced(w) THEN NoHandle
                                        ELSE w.hs[h]]]

\* getClient, lines 310-328: new ModbusRTU(), setTimeout, await connectTCP(host, port)
Connect(w) ==
    LET h == CHOOSE x \in FreeSlots(w) : \A y \in FreeSlots(w) : x <= y
    IN [w EXCEPT !.client = h,
                 !.hs[h] = [st |-> "connecting", host |-> w.cfg.host,
                            port |-> w.cfg.port, unit |-> 0, stale |-> FALSE],
                 !.L.h = h,
                 !.L.nConn = IF w.counting THEN @ + 1 ELSE @,
                 !.pc = "connecting"]

\* getClient(true) up to its first suspension: disconnect, then connect
GetClientForce(w) == Connect(disconnect(w))

\* reconnectWithRetry with `attempt <= maxReconnectAttempts` guarding the delay
ThrowInReconnect_OneMore(w, e) ==
    IF w.L.attempt <= maxReconnectAttempts
    THEN [w EXCEPT !.pc = "delay"]
    ELSE Complete(w, e)

\* reconnectWithRetry: getClient(true) threw on attempt L.attempt
ThrowInReconnect(w, e) ==
    IF w.L.attempt < maxReconnectAttempts
    THEN [w EXCEPT !.pc = "delay"]
    ELSE Complete(w, e)

\* reconnectWithRetry, one iteration of its loop
ReconnectAttempt(w) ==
    GetClientForce([w EXCEPT !.L.phase = "reconnect", !.L.attempt = @ + 1,
                             !.L.nReconn = IF w.counting THEN @ + 1 ELSE @])

\* executeWithRetry's test for a connection error
IsConnectionIssue(w, e) == MessageNamesConnection(e) \/ ~IsOpen(w, w.client)

\* executeWithRetry that throws every error of the first run on as it is
ThrowInFirst_NoReconnect(w, e) == Complete([w EXCEPT !.L.firstErr = e], e)

\* executeWithRetry: the first run of the operation threw e
ThrowInFirst(w, e) ==
    LET w1 == [w EXCEPT !.L.firstErr = e]
    IN IF IsConnectionIssue(w1, e) THEN ReconnectAttempt(w1) ELSE Complete(w1, e)

\* testConnection running its connect through executeWithRetry
ThrowInTest_Retry(w, e) == ThrowInFirst(w, e)

\* testConnection: the outer catch
ThrowInTest(w, e) ==
    Complete([w EXCEPT !.cs.connected = FALSE, !.cs.lastError = e], "TestFailed")

\* executeWithRetry with the retried operation's error entering the catch again
Throw_RetryAgain(w, e) ==
    CASE w.L.phase \in {"first", "retry"} -> ThrowInFirst(w, e)
      [] w.L.phase = "reconnect" -> ThrowInReconnect(w, e)
      [] w.L.phase = "test" -> ThrowInTest(w, e)

\* executeWithRetry retrying through itself: the retried operation's error
\* starts the reconnect loop anew
Throw_Recursive(w, e) ==
    CASE w.L.phase = "first" -> ThrowInFirst(w, e)
      [] w.L.phase = "reconnect" -> ThrowInReconnect(w, e)
      [] w.L.phase = "retry" -> ThrowInFirst([w EXCEPT !.L.attempt = 0], e)
      [] w.L.phase = "test" -> ThrowInTest(w, e)

\* An error thrown inside getClient or the operation body reaches the catch
\* block that encloses the call's current position
Throw(w, e) ==
    CASE w.L.phase = "first" -> ThrowInFirst(w, e)
      [] w.L.phase = "reconnect" -> ThrowInReconnect(w, e)
      [] w.L.phase = "retry" -> Complete(w, e)
      [] w.L.phase = "test" -> ThrowInTest(w, e)

\* An error of the library or of the runtime, whose message names nothing of the
\* configuration, is thrown
Raise(w, e) == Throw([w EXCEPT !.L.msg = PlainMessage(e)], e)

\* A register request goes out on handle c
Issue(w, c) ==
    [w EXCEPT !.pc = "request", !.L.h = c, !.L.issued = TRUE,
              !.L.nReq = IF w.counting THEN @ + 1 ELSE @,
              !.log = IF w.L.issued THEN @ ELSE Append(@, <<w.L.id, w.L.op>>)]

\* The body of a read or write with setID(1) in place of setID(this.config.slaveId)
UseClient_DefaultUnit(w, c) ==
    IF c = 0 THEN Raise(w, "TypeError")
    ELSE LET w1 == [w EXCEPT !.hs[c].unit = IF w.hs[c].st = "none" THEN 0
                                              ELSE DefaultSlaveId]
         IN IF IsOpen(w1, c) THEN Issue(w1, c) ELSE Raise(w1, "PortNotOpen")

\* The body of a read or write after getClient returned c: setID, then the request
UseClient(w, c) ==
    IF c = 0 THEN Raise(w, "TypeError")
    ELSE LET w1 == [w EXCEPT !.hs[c].unit = IF w.hs[c].st = "none" THEN 0
                                              ELSE w.cfg.slaveId]
         IN IF IsOpen(w1, c) THEN Issue(w1, c) ELSE Raise(w1, "PortNotOpen")

\* testConnection after getClient(true) returned c: setID, then the trial read;
\* a trial read that fails at once lands in the inner catch
TestUse(w, c) ==
    IF c = 0 THEN Raise(w, "TypeError")
    ELSE LET w1 == [w EXCEPT !.hs[c].unit = IF w.hs[c].st = "none" THEN 0
                                              ELSE w.cfg.slaveId]
         IN IF IsOpen(w1, c) THEN Issue(w1, c)
            ELSE Complete([w1 EXCEPT !.cs.connected = TRUE,
                                     !.cs.lastConnected = "connectTime"], "TestOk")

\* getClient(false) as called by the body of a read or write
\* getClient connecting whether or not this.client is open
GetClientLazy_AlwaysConnect(w) == Connect(w)

GetClientLazy(w) ==
    IF IsOpen(w, w.client) THEN UseClient(w, w.client) ELSE Connect(w)

\* executeWithRetry calls operation(): the body starts with getClient()
RunOperation(w, phase) ==
    GetClientLazy([w EXCEPT !.L.phase = phase,
                            !.L.nOp = IF w.counting THEN @ + 1 ELSE @])

\* getClient returned c to whoever awaited it
Returned(w, c) ==
    CASE w.L.phase \in {"first", "retry"} -> UseClient(w, c)
      [] w.L.phase = "reconnect" -> RunOperation(w, "retry")
      [] w.L.phase = "test" -> TestUse(w, c)

\* getClient's catch block, lines 350-404
GetClientCatch(w, code) ==
    Throw([w EXCEPT !.client = 0,
                    !.cs.connected = FALSE,
                    !.cs.lastError = code,
                    !.ra = @ + 1,
                    !.L.msg = ConnectMessage(code, w.cfg)],
          ConnectError(code))

----------------------------------------------------------------------------
(* Steps *)

Commit(p, w) ==
    /\ client' = w.client
    /\ hs' = Settled(w).hs
    /\ orphans' = Settled(w).orph
    /\ connectionStatus' = w.cs
    /\ reconnectAttempts' = w.ra
    /\ issueLog' = w.log
    /\ call' = [call EXCEPT ![p] = w.L]
    /\ pc' = [pc EXCEPT ![p] = w.pc]

Begin(p, op, addr, qty) ==
    [World(p) EXCEPT !.L = [NewCall EXCEPT !.op = op, !.id = calls + 1,
                                           !.addr = addr, !.qty = qty]]

RegisterKinds == {"holding", "input", "coil", "discrete"}

\* readRegisters lines 557-560 with the index counted from 1
MapValues_OneBased(kind, startAddress, d) ==
    [i \in 1..Len(d) |->
        [address |-> startAddress + i,
         rawValue |-> IF kind \in {"coil", "discrete"}
                      THEN (IF d[i] = TRUE THEN 1 ELSE 0)
                      ELSE d[i]]]

\* readRegisters lines 550-597: data.map((val, index) => ({address, rawValue}));
\* index runs from 0, position i of the sequence is index i - 1
MapValues(kind, startAddress, d) ==
    [i \in 1..Len(d) |->
        [address |-> startAddress + (i - 1),
         rawValue |-> IF kind \in {"coil", "discrete"}
                      THEN (IF d[i] = TRUE THEN 1 ELSE 0)
                      ELSE d[i]]]

\* readRegisters lines 606-614: the device answered the read with the list d
ReadDone(w, d) ==
    Complete([w EXCEPT !.L.data = d,
                       !.L.resp = [success |-> TRUE, type |-> w.L.kind,
                                   values |-> MapValues(w.L.kind, w.L.addr, d)]],
             "ok")

\* The answer of a device whose registers are all 0 and whose coils are all off
QuietData(kind, qty) ==
    [i \in 1..qty |-> IF kind \in {"coil", "discrete"} THEN FALSE ELSE 0]

MinAddress == 0
MaxAddress == 65535
MinQuantity == 1
MaxQuantity == 125

\* A request that fails validation: a BadRequestException naming the offending value
Reject(w, e) == Complete([w EXCEPT !.L.msg = PlainMessage(e)], e)

\* readRegisters without the quantity check
readRegisters_NoQuantityCheck(w) ==
    IF w.L.addr < MinAddress \/ w.L.addr > MaxAddress THEN Reject(w, "BadAddress")
    ELSE IF w.L.kind \notin RegisterKinds THEN Reject(w, "BadType")
    ELSE RunOperation(w, "first")

\* readRegisters: the two range checks, then the read through executeWithRetry
readRegisters(w) ==
    IF w.L.addr < MinAddress \/ w.L.addr > MaxAddress THEN Reject(w, "BadAddress")
    ELSE IF w.L.qty < MinQuantity \/ w.L.qty > MaxQuantity THEN Reject(w, "BadQuantity")
    ELSE IF w.L.kind \notin RegisterKinds THEN Reject(w, "BadType")
    ELSE RunOperation(w, "first")

\* readRegisters({type: kind, address: addr, quantity: qty})
InvokeReadOf(p, kind, addr, qty) ==
    /\ pc[p] = "idle"
    /\ calls' = calls + 1
    /\ Commit(p, readRegisters([Begin(p, "read", addr, qty) EXCEPT !.L.kind = kind]))
    /\ UNCHANGED <<config, saved, refuseAll, counting, lastUpdate>>

InvokeRead(p, addr, qty) == InvokeReadOf(p, "holding", addr, qty)

\* ReadModbusDto: @IsEnum type, @IsInt() @Min(0) address, @Min(1) @Max(125) quantity
ReadDtoAccepts(kind, addr, qty) ==
    kind \in RegisterKinds /\ addr >= 0 /\ qty >= 1 /\ qty <= 125

\* GET /modbus/read?type=kind&address=addr&quantity=qty
GetRead(p, kind, addr, qty) ==
    IF ReadDtoAccepts(kind, addr, qty) THEN InvokeReadOf(p, kind, addr, qty)
    ELSE /\ pc[p] = "idle"
         /\ calls' = calls + 1
         /\ Commit(p, Reject([Begin(p, "read", addr, qty) EXCEPT !.L.kind = kind],
                             "DtoRejected"))
         /\ UNCHANGED <<config, saved, refuseAll, counting, lastUpdate>>

\* WriteRegisterDto / WriteCoilDto: @IsInt() @Min(0) address
WriteDtoAccepts(addr) == addr >= 0

\* writeHoldingRegister / writeCoil: straight into executeWithRetry
writeRegister(w) == RunOperation(w, "first")

\* POST /modbus/write/register and /modbus/write/coil
InvokeWrite(p, addr) ==
    /\ pc[p] = "idle"
    /\ calls' = calls + 1
    /\ Commit(p, IF WriteDtoAccepts(addr)
                 THEN writeRegister(Begin(p, "write", addr, 1))
                 ELSE Reject(Begin(p, "write", addr, 1), "DtoRejected"))
    /\ UNCHANGED <<config, saved, refuseAll, counting, lastUpdate>>

InvokeTest(p) ==
    /\ pc[p] = "idle"
    /\ calls' = calls + 1
    /\ Commit(p, GetClientForce([Begin(p, "test", 0, 1) EXCEPT !.L.phase = "test"]))
    /\ UNCHANGED <<config, saved, refuseAll, counting, lastUpdate>>

\* connectTCP resolved: getClient lines 330-338 (setID on this.client, then the
\* 100 ms pause); a null this.client makes setID throw into the catch block
ConnectSucceeds(p) ==
    /\ pc[p] = "connecting"
    /\ ~refuseAll
    /\ LET w == World(p)
           h == w.L.h
           w1 == [w EXCEPT !.hs[h].st = "open", !.L.h = 0, !.L.connOk = TRUE]
       IN Commit(p, IF w1.client = 0 THEN GetClientCatch(w1, "TypeError")
                    ELSE [w1 EXCEPT !.hs[w1.client].unit =
                                        IF w1.hs[w1.client].st = "none" THEN 0
                                        ELSE w1.cfg.slaveId,
                                    !.pc = "settle"])
    /\ UNCHANGED <<config, saved, refuseAll, counting, calls, lastUpdate>>

\* connectTCP rejected with error.code = code
ConnectFails(p, code) ==
    /\ pc[p] = "connecting"
    /\ LET w == World(p)
           h == w.L.h
       IN Commit(p, GetClientCatch([w EXCEPT !.hs[h] = NoHandle, !.L.h = 0], code))
    /\ UNCHANGED <<config, saved, refuseAll, counting, calls, lastUpdate>>

\* getClient lines 340-349 after the 100 ms pause
Settle(p) ==
    /\ pc[p] = "settle"
    /\ LET w == World(p)
           w1 == [w EXCEPT !.cs.connected = TRUE, !.cs.lastConnected = "connectTime",
                           !.cs.lastError = "none", !.ra = 0]
       IN Commit(p, Returned(w1, w1.client))
    /\ UNCHANGED <<config, saved, refuseAll, counting, calls, lastUpdate>>

\* The outcomes the pending request of p can have: the device's answer on an
\* open handle, the transaction timeout on a handle that was closed meanwhile
Outcomes(p) ==
    IF hs[call[p].h].st = "open" THEN {"ok"} \cup RequestErrors ELSE {"TimedOut"}

\* testConnection lines 258-284: both outcomes of the trial read report success
TestReadDone(w, outcome) ==
    IF outcome = "ok"
    THEN Complete([w EXCEPT !.cs.connected = TRUE, !.cs.lastConnected = "connectTime",
                            !.cs.lastError = "none", !.ra = 0], "TestOk")
    ELSE Complete([w EXCEPT !.cs.connected = TRUE, !.cs.lastConnected = "connectTime"], "TestOk")

RequestDone(p, outcome) ==
    /\ pc[p] = "request"
    /\ outcome \in Outcomes(p)
    /\ LET w == [World(p) EXCEPT !.L.h = 0]
       IN Commit(p, IF w.L.phase = "test" THEN TestReadDone(w, outcome)
                    ELSE IF outcome = "ok"
                         THEN (IF w.L.op = "read"
                               THEN ReadDone(w, QuietData(w.L.kind, w.L.qty))
                               ELSE Complete(w, "ok"))
                    ELSE Raise(w, outcome))
    /\ UNCHANGED <<config, saved, refuseAll, counting, calls, lastUpdate>>

\* The device answers the pending read of p with the list d
RequestAnswered(p, d) ==
    /\ pc[p] = "request"
    /\ call[p].op = "read"
    /\ hs[call[p].h].st = "open"
    /\ Commit(p, ReadDone([World(p) EXCEPT !.L.h = 0], d))
    /\ UNCHANGED <<config, saved, refuseAll, counting, calls, lastUpdate>>

\* reconnectWithRetry: the reconnect delay elapsed, next iteration
DelayDone(p) ==
    /\ pc[p] = "delay"
    /\ Commit(p, ReconnectAttempt([World(p) EXCEPT
                     !.L.nDelay = IF counting THEN @ + 1 ELSE @,
                     !.L.waited = IF counting THEN @ + reconnectDelay ELSE @]))
    /\ UNCHANGED <<config, saved, refuseAll, counting, calls, lastUpdate>>

\* The device or the network drops an open connection
ConnectionLost(h) ==
    /\ hs[h].st = "open"
    /\ hs' = [hs EXCEPT ![h] = NoHandle]
    /\ UNCHANGED <<config, saved, client, orphans, connectionStatus, reconnectAttempts,
                   refuseAll, counting, pc, call, calls, issueLog, lastUpdate>>

\* ... or one of the open connections nothing refers to
OrphanLost ==
    /\ orphans > 0
    /\ orphans' = orphans - 1
    /\ UNCHANGED <<config, saved, client, hs, connectionStatus, reconnectAttempts,
                   refuseAll, counting, pc, call, calls, issueLog, lastUpdate>>

\* The service's fields alone, for the handlers that are not calls of a caller
Service ==
    [p |-> "none", counting |-> counting, client |-> client, hs |-> hs, orph |-> orphans,
     cs |-> connectionStatus, ra |-> reconnectAttempts, log |-> issueLog,
     cfg |-> config, L |-> NewCall, pc |-> "none"]

\* disconnect() that leaves this.client set when close() throws (no finally)
disconnectCall_NoFinally(w, closeOk) ==
    [w |-> IF closeOk THEN disconnect(w) ELSE w,
     closes |-> IF IsOpen(w, w.client) THEN 1 ELSE 0,
     threw |-> FALSE]

\* One call of disconnect(): the service afterwards, the number of close() calls
\* it made, and whether it threw.  A close() that throws leaves the handle as
\* it is; the catch logs and the finally clears this.client all the same.
disconnectCall(w, closeOk) ==
    [w |-> IF closeOk THEN disconnect(w) ELSE [disconnect(w) EXCEPT !.hs = w.hs],
     closes |-> IF IsOpen(w, w.client) THEN 1 ELSE 0,
     threw |-> FALSE]

\* The public disconnect() (also onModuleDestroy)
Disconnect(closeOk) ==
    /\ closeOk \/ IsOpen(Service, client)
    /\ LET w == Settled(disconnectCall(Service, closeOk).w)
       IN /\ client' = w.client
          /\ hs' = w.hs
          /\ orphans' = w.orph
          /\ connectionStatus' = w.cs
    /\ UNCHANGED <<config, saved, reconnectAttempts, refuseAll, counting, pc, call,
                   calls, issueLog, lastUpdate>>

\* updateConfig that marks the status disconnected but keeps its host, port and
\* slaveId
UpdateConfig_StatusKept(newConfig, writeOk) ==
    LET merged == Spread(config, newConfig)
        verdict == validateConfig(merged)
    IN /\ lastUpdate' = [newConfig |-> newConfig, before |-> config, result |-> verdict]
       /\ IF verdict # "ok"
          THEN UNCHANGED <<config, saved, client, hs, connectionStatus>>
          ELSE LET w == IF IsOpen(Service, client) THEN disconnect(Service) ELSE Service
               IN /\ config' = merged
                  /\ saved' = IF writeOk
                              THEN saveConfig(saved, [f \in ConfigFields |-> merged[f]])
                              ELSE saved
                  /\ client' = w.client
                  /\ hs' = w.hs
                  /\ connectionStatus' = [connectionStatus EXCEPT !.connected = FALSE]
       /\ UNCHANGED <<orphans, reconnectAttempts, refuseAll, counting, pc, call, calls, issueLog>>

\* updateConfig that closes the connection before it validates
UpdateConfig_DisconnectFirst(newConfig, writeOk) ==
    LET merged == Spread(config, newConfig)
        verdict == validateConfig(merged)
        w == IF IsOpen(Service, client) THEN disconnect(Service) ELSE Service
    IN /\ lastUpdate' = [newConfig |-> newConfig, before |-> config, result |-> verdict]
       /\ client' = w.client
       /\ hs' = w.hs
       /\ IF verdict # "ok"
          THEN /\ connectionStatus' = w.cs
               /\ UNCHANGED <<config, saved>>
          ELSE /\ config' = merged
               /\ saved' = IF writeOk
                           THEN saveConfig(saved, [f \in ConfigFields |-> merged[f]])
                           ELSE saved
               /\ connectionStatus' = FreshStatus(merged)
       /\ UNCHANGED <<orphans, reconnectAttempts, refuseAll, counting, pc, call, calls, issueLog>>

\* updateConfig: merge, validate (revert and throw), save (a failed write is only
\* logged), disconnect an open client, reset the status
UpdateConfig(newConfig, writeOk) ==
    LET merged == Spread(config, newConfig)
        verdict == validateConfig(merged)
    IN /\ lastUpdate' = [newConfig |-> newConfig, before |-> config, result |-> verdict]
       /\ IF verdict # "ok"
          THEN UNCHANGED <<config, saved, client, hs, connectionStatus>>
          ELSE LET marked == [Service EXCEPT !.hs =
                                 [h \in Handles |->
                                     IF hs[h].st = "none" THEN hs[h]
                                     ELSE [hs[h] EXCEPT !.stale = TRUE]]]
                   w == IF IsOpen(marked, client) THEN disconnect(marked) ELSE marked
               IN /\ config' = merged
                  /\ saved' = IF writeOk
                              THEN saveConfig(saved, [f \in ConfigFields |-> merged[f]])
                              ELSE saved
                  /\ client' = w.client
                  /\ hs' = w.hs
                  /\ connectionStatus' = FreshStatus(merged)
       /\ UNCHANGED <<orphans, reconnectAttempts, refuseAll, counting, pc, call, calls, issueLog>>

\* getConnectionStatus, lines 233-238: the value of the object it returns
getConnectionStatus ==
    [connectionStatus EXCEPT !.connected = IsOpen(Service, client)]

\* What getConfig hands to its caller: a new object with the fields of this.config
getConfigResult == [object |-> "new", value |-> getConfig]

\* What getConnectionStatus hands to its caller: a new object whose fields are
\* those of this.connectionStatus, so its lastConnected refers to the same Date
\* object as the service's field does
getConnectionStatusResult ==
    [object |-> "new", value |-> getConnectionStatus,
     date |-> IF connectionStatus.lastConnected = "none" THEN "none"
              ELSE "this.connectionStatus.lastConnected"]

\* Caller p calls getConfig(); with `change` it then assigns to fields of the
\* object it was handed
GetConfig(p, change) ==
    LET r == getConfigResult
        mine == IF change THEN [r.value EXCEPT !.host = Host_empty, !.port = 0]
                ELSE r.value
    IN /\ pc[p] = "idle"
       /\ call' = [call EXCEPT ![p] = [NewCall EXCEPT !.op = "getConfig"]]
       /\ config' = IF change /\ r.object = "this.config" THEN mine ELSE config
       /\ UNCHANGED <<saved, client, hs, orphans, connectionStatus, reconnectAttempts,
                      refuseAll, counting, pc, calls, issueLog, lastUpdate>>

\* Caller p calls getConnectionStatus(); with `change` it then assigns to fields
\* of the object it was handed and calls setTime() on its lastConnected
GetConnectionStatus(p, change) ==
    LET r == getConnectionStatusResult
        mine == IF change
                THEN [r.value EXCEPT !.host = Host_empty, !.port = 0,
                                     !.lastConnected = IF @ = "none" THEN @ ELSE "changed"]
                ELSE r.value
    IN /\ pc[p] = "idle"
       /\ call' = [call EXCEPT ![p] = [NewCall EXCEPT !.op = "getStatus"]]
       /\ connectionStatus' =
              IF change /\ r.object = "this.connectionStatus"
                  THEN [mine EXCEPT !.connected = connectionStatus.connected]
              ELSE IF change /\ r.date = "this.connectionStatus.lastConnected"
                  THEN [connectionStatus EXCEPT !.lastConnected = "changed"]
              ELSE connectionStatus
       /\ UNCHANGED <<config, saved, client, hs, orphans, reconnectAttempts,
                      refuseAll, counting, pc, calls, issueLog, lastUpdate>>

\* DeviceConfigDto: every field optional; host checked by IpValidator unless
\* empty, port 1..65535, slaveId by SlaveIdValidator, timeout 1000..30000
DeviceConfigDtoAccepts(body) ==
    /\ Has(body, "host") => (Len(body.host) = 0 \/ isValidModbusIp(body.host))
    /\ Has(body, "port") => (body.port >= 1 /\ body.port <= 65535)
    /\ Has(body, "slaveId") => SlaveIdValidator_isValid(body.slaveId)
    /\ Has(body, "timeout") => (body.timeout >= 1000 /\ body.timeout <= 30000)

\* POST /modbus/config: a body the pipe rejects changes nothing; the handler
\* answers every error of updateConfig with BAD_REQUEST
PostConfig(body, writeOk) ==
    IF DeviceConfigDtoAccepts(body) THEN UpdateConfig(body, writeOk)
    ELSE /\ lastUpdate' = [newConfig |-> body, before |-> config, result |-> "DtoRejected"]
         /\ UNCHANGED <<config, saved, client, hs, connectionStatus, orphans,
                        reconnectAttempts, refuseAll, counting, pc, call, calls, issueLog>>

ConfigStatus(result) == IF result = "ok" THEN 201 ELSE 400

ConfigBody(result) ==
    IF result = "ok" THEN "result" ELSE IF result = "DtoRejected" THEN "pipe" ELSE "envelope"

----------------------------------------------------------------------------
(* Specifications *)

\* Construction: loadConfig, validateConfig (a throw means no service exists),
\* the initial status; no connection is made
Constructed(savedConfig, env) ==
    /\ ~loadConfigThrows(savedConfig, env)
    /\ validateConfig(loadConfig(savedConfig, env)) = "ok"
    /\ saved = savedConfig
    /\ config = loadConfig(savedConfig, env)
    /\ connectionStatus = FreshStatus(loadConfig(savedConfig, env))
    /\ client = 0
    /\ hs = [h \in Handles |-> NoHandle]
    /\ orphans = 0
    /\ reconnectAttempts = 0
    /\ pc = [p \in Procs |-> "idle"]
    /\ call = [p \in Procs |-> NewCall]
    /\ calls = 0
    /\ issueLog = << >>
    /\ lastUpdate = [newConfig |-> << >>, before |-> loadConfig(savedConfig, env),
                     result |-> "none"]

Progress(P, codes, errors) ==
    \/ \E p \in P : ConnectSucceeds(p)
    \/ \E p \in P, code \in codes : ConnectFails(p, code)
    \/ \E p \in P : Settle(p)
    \/ \E p \in P, outcome \in {"ok"} \cup errors : RequestDone(p, outcome)
    \/ \E p \in P : DelayDone(p)
    \/ \E h \in Handles : ConnectionLost(h)

(* Spec: one caller at a time, with disconnect() and configuration updates   *)
(* arriving at any moment                                                    *)

MaxCalls == 2

EnvHost == [MODBUS_HOST |-> Host_192_168_1_50]

Init ==
    /\ refuseAll \in BOOLEAN
    /\ counting = TRUE
    /\ Constructed(NoRecord, EnvHost)

Next ==
    \/ calls < MaxCalls /\ InvokeRead("c1", 0, 1)
    \/ calls < MaxCalls /\ InvokeTest("c1")
    \/ Progress({"c1"}, {"ECONNREFUSED", "ETIMEDOUT"}, RequestErrors)
    \/ OrphanLost
    \/ Disconnect(TRUE)
    \/ UpdateConfig([host |-> Host_10_0_0_5], TRUE)

Spec == Init /\ [][Next]_vars

(* SpecOverlap: two callers whose calls overlap at their await points *)

MaxOverlapCalls == 2

InitOverlap ==
    /\ refuseAll = FALSE
    /\ counting = FALSE
    /\ Constructed(NoRecord, EnvHost)

NextOverlap ==
    \/ calls < MaxOverlapCalls /\ \E p \in Procs : InvokeRead(p, 0, 1)
    \/ calls < MaxOverlapCalls /\ \E p \in Procs : InvokeTest(p)
    \/ Progress(Procs, {"ECONNREFUSED"}, {"IllegalAddress"})
    \/ OrphanLost

SpecOverlap == InitOverlap /\ [][NextOverlap]_vars

(* SpecConfig: start-up from the stored record and the environment, then    *)
(* configuration updates                                                     *)

StoredRecords ==
    {NoRecord,
     [host |-> Host_10_0_0_5, port |-> 8502, slaveId |-> 5, timeout |-> 3000,
      lastUpdated |-> TRUE],
     [port |-> 0, slaveId |-> 300],
     [host |-> Host_999_1_1_1]}

Environments ==
    {<< >>,
     [MODBUS_HOST |-> Host_192_168_1_50],
     [MODBUS_HOST |-> Host_192_168_1_50, MODBUS_PORT |-> <<1, 5, 0, 2>>,
      MODBUS_SLAVE_ID |-> <<7>>],
     [MODBUS_HOST |-> Host_192_168_1_50, MODBUS_PORT |-> <<LETTER>>,
      MODBUS_TIMEOUT |-> <<0>>]}

ConfigUpdates ==
    {<< >>,
     [host |-> Host_10_0_0_5], [host |-> Host_00_0_0_0],
     [host |-> Host_999_1_1_1], [host |-> Host_0_0_0_0], [host |-> Host_255x4],
     [host |-> Host_1_2_3], [host |-> Host_1_2_3_4444], [host |-> Host_a_b_c_d],
     [host |-> Host_empty],
     [port |-> 0], [port |-> 65535], [port |-> 65536],
     [slaveId |-> 0], [slaveId |-> 255], [slaveId |-> 256],
     [timeout |-> 3000],
     [host |-> Host_192_168_1_50, port |-> 502, slaveId |-> 1, timeout |-> 3000],
     [host |-> Host_10_0_0_5, port |-> 70000],
     [slaveId |-> 2, host |-> Host_1_2_3]}

InitConfig ==
    /\ refuseAll = FALSE
    /\ counting = FALSE
    /\ \E savedConfig \in StoredRecords, env \in Environments :
           Constructed(savedConfig, env)

NextConfig ==
    \E u \in ConfigUpdates, writeOk \in BOOLEAN : UpdateConfig(u, writeOk)

SpecConfig == InitConfig /\ [][NextConfig]_vars

(* SpecRestart: configuration updates and restarts of the process, which    *)
(* construct a new manager from the stored record and the environment        *)

\* The process ends and starts again under environment env: every field of the
\* service is built anew by the constructor; a constructor that throws leaves
\* no service.  lastUpdate keeps what the last accepted update asked for.
Restart(env) ==
    /\ \A p \in Procs : pc[p] = "idle"
    /\ ~loadConfigThrows(saved, env)
    /\ validateConfig(loadConfig(saved, env)) = "ok"
    /\ config' = loadConfig(saved, env)
    /\ connectionStatus' = FreshStatus(loadConfig(saved, env))
    /\ client' = 0
    /\ hs' = [h \in Handles |-> NoHandle]
    /\ orphans' = 0
    /\ reconnectAttempts' = 0
    /\ call' = [p \in Procs |-> NewCall]
    /\ issueLog' = << >>
    /\ lastUpdate' = IF lastUpdate.result = "ok"
                      THEN [lastUpdate EXCEPT !.result = "restarted"]
                      ELSE [newConfig |-> << >>, before |-> loadConfig(saved, env),
                            result |-> "none"]
    /\ UNCHANGED <<saved, refuseAll, counting, pc, calls>>

RestartEnvironments ==
    {<< >>,
     [MODBUS_HOST |-> Host_192_168_1_50, MODBUS_PORT |-> <<1, 5, 0, 2>>,
      MODBUS_SLAVE_ID |-> <<7>>, MODBUS_TIMEOUT |-> <<3, 0, 0, 0>>]}

RestartUpdates ==
    {[host |-> Host_10_0_0_5], [host |-> Host_999_1_1_1],
     [port |-> 65535], [slaveId |-> 255],
     [timeout |-> 3000], [timeout |-> 0]}

InitRestart ==
    /\ refuseAll = FALSE
    /\ counting = FALSE
    /\ \E env \in RestartEnvironments : Constructed(NoRecord, env)

NextRestart ==
    \/ \E u \in RestartUpdates, writeOk \in BOOLEAN : UpdateConfig(u, writeOk)
    \/ \E env \in RestartEnvironments : Restart(env)

SpecRestart == InitRestart /\ [][NextRestart]_vars

(* SpecHosts: the host validation at start-up and in updateConfig, over hosts *)
(* inside and outside the 192.168.100.x network                              *)

ValidationHosts ==
    {Host_192_168_100_0, Host_192_168_100_1, Host_192_168_100_40,
     Host_192_168_100_255, Host_192_168_100_256, Host_192_168_101_1,
     Host_192_168_1_50, Host_10_0_0_5, Host_0_0_0_0, Host_255x4,
     Host_999_1_1_1, Host_1_2_3, Host_a_b_c_d, Host_empty}

HostEnvironment(h) == [MODBUS_HOST |-> h]

InitHosts ==
    /\ refuseAll = FALSE
    /\ counting = FALSE
    /\ \E h \in ValidationHosts : Constructed(NoRecord, HostEnvironment(h))

NextHosts ==
    \/ \E h \in ValidationHosts, writeOk \in BOOLEAN :
           UpdateConfig([host |-> h], writeOk)
    \/ \E h \in ValidationHosts : Restart(HostEnvironment(h))

SpecHosts == InitHosts /\ [][NextHosts]_vars

(* SpecValues: one caller, reads of every register kind, and the lists the    *)
(* device answers with                                                        *)

MaxValueCalls == 2
MaxAnswerLen == 3

RECURSIVE ListsOver(_, _)
ListsOver(S, n) ==
    IF n = 0 THEN {<< >>}
    ELSE ListsOver(S, n - 1)
         \cup {Append(l, x) : l \in {m \in ListsOver(S, n - 1) : Len(m) = n - 1}, x \in S}

\* What the device can answer: register words, or coil states
DeviceData(kind) ==
    IF kind \in {"coil", "discrete"} THEN ListsOver(BOOLEAN, MaxAnswerLen)
    ELSE ListsOver({10, 20, 30}, MaxAnswerLen)

InitValues ==
    /\ refuseAll = FALSE
    /\ counting = FALSE
    /\ Constructed(NoRecord, EnvHost)

NextValues ==
    \/ /\ calls < MaxValueCalls
       /\ \E kind \in RegisterKinds \cup {"other"}, addr \in {0, 5}, qty \in {2, 3} :
              InvokeReadOf("c1", kind, addr, qty)
    \/ Progress({"c1"}, {"ECONNREFUSED"}, {"IllegalAddress"})
    \/ \E d \in DeviceData(call["c1"].kind) : RequestAnswered("c1", d)

SpecValues == InitValues /\ [][NextValues]_vars

(* SpecRetry: one caller, reads and writes and every way they can fail, with   *)
(* disconnect() arriving at any moment                                        *)

MaxRetryCalls == 2

InitRetry ==
    /\ refuseAll = FALSE
    /\ counting = TRUE
    /\ Constructed(NoRecord, EnvHost)

NextRetry ==
    \/ calls < MaxRetryCalls /\ InvokeRead("c1", 0, 1)
    \/ calls < MaxRetryCalls /\ InvokeWrite("c1", 0)
    \/ Progress({"c1"}, {"ECONNREFUSED", "ETIMEDOUT"}, RequestErrors)
    \/ OrphanLost
    \/ Disconnect(TRUE)

SpecRetry == InitRetry /\ [][NextRetry]_vars

(* SpecDisconnect: one caller and disconnect(), whose close() may fail        *)

MaxDisconnectCalls == 2

InitDisconnect ==
    /\ refuseAll = FALSE
    /\ counting = FALSE
    /\ Constructed(NoRecord, EnvHost)

NextDisconnect ==
    \/ calls < MaxDisconnectCalls /\ InvokeRead("c1", 0, 1)
    \/ calls < MaxDisconnectCalls /\ InvokeTest("c1")
    \/ Progress({"c1"}, {"ECONNREFUSED"}, {"TimedOut"})
    \/ OrphanLost
    \/ \E closeOk \in BOOLEAN : Disconnect(closeOk)

SpecDisconnect == InitDisconnect /\ [][NextDisconnect]_vars

(* SpecInputs: one caller, reads and writes over the address and quantity ranges *)

MaxInputCalls == 2

Addresses == {-1, 0, 5, 65535, 65536}
Quantities == {0, 1, 3, 125, 126}

InitInputs ==
    /\ refuseAll \in BOOLEAN
    /\ counting = TRUE
    /\ Constructed(NoRecord, EnvHost)

NextInputs ==
    \/ calls < MaxInputCalls
         /\ \E addr \in Addresses, qty \in Quantities : InvokeRead("c1", addr, qty)
    \/ calls < MaxInputCalls /\ \E addr \in Addresses : InvokeWrite("c1", addr)
    \/ Progress({"c1"}, ConnectCodes, {"IllegalAddress"})

SpecInputs == InitInputs /\ [][NextInputs]_vars

(* SpecErrors: one caller, every class of error, against a device that       *)
(* answers or one that refuses every connection, with the port and the unit  *)
(* id reconfigured in between                                                *)

MaxErrorCalls == 2

AllConnectCodes == ConnectCodes \cup {"ENOTFOUND", "EHOSTUNREACH"}

DeviceExceptions == {"IllegalAddress", "IllegalValue"}

InitErrors ==
    /\ refuseAll \in BOOLEAN
    /\ counting = FALSE
    /\ Constructed(NoRecord, EnvHost)

NextErrors ==
    \/ calls < MaxErrorCalls /\ InvokeRead("c1", 0, 1)
    \/ calls < MaxErrorCalls /\ InvokeWrite("c1", 0)
    \/ calls < MaxErrorCalls /\ InvokeTest("c1")
    \/ Progress({"c1"}, IF refuseAll THEN {"ECONNREFUSED"} ELSE AllConnectCodes,
                DeviceExceptions \cup {"TimedOut"})
    \/ UpdateConfig([port |-> 1502, slaveId |-> 7], TRUE)

SpecErrors == InitErrors /\ [][NextErrors]_vars

(* SpecHttp: one client of the HTTP interface; every call comes through the   *)
(* controller and its validation pipe                                         *)

MaxHttpCalls == 2

HttpBodies == {[host |-> Host_empty], [port |-> 0], [port |-> 8502]}

HttpReads ==
    {[type |-> "holding", address |-> 0, quantity |-> 1],
     [type |-> "holding", address |-> 65536, quantity |-> 1],
     [type |-> "holding", address |-> -1, quantity |-> 1],
     [type |-> "input", address |-> 0, quantity |-> 126],
     [type |-> "other", address |-> 0, quantity |-> 1]}

InitHttp ==
    /\ refuseAll \in BOOLEAN
    /\ counting = FALSE
    /\ Constructed(NoRecord, EnvHost)

NextHttp ==
    \/ /\ calls < MaxHttpCalls
       /\ \E q \in HttpReads : GetRead("c1", q.type, q.address, q.quantity)
    \/ calls < MaxHttpCalls /\ \E addr \in {-1, 0} : InvokeWrite("c1", addr)
    \/ calls < MaxHttpCalls /\ InvokeTest("c1")
    \/ Progress({"c1"}, {"ECONNREFUSED"}, {"IllegalAddress"})
    \/ \E body \in HttpBodies : PostConfig(body, TRUE)

SpecHttp == InitHttp /\ [][NextHttp]_vars

(* SpecUnit: two callers, one reading and one writing or testing, whose    *)
(* calls overlap, with the unit id reconfigured at any moment; the device   *)
(* accepts every connection                                                 *)

MaxUnitCalls == 2

InitUnit ==
    /\ refuseAll = FALSE
    /\ counting = FALSE
    /\ Constructed(NoRecord, EnvHost)

\* Each caller makes one call
NextUnit ==
    \/ calls < MaxUnitCalls /\ call["c1"].op = "none" /\ InvokeReadOf("c1", "coil", 0, 1)
    \/ calls < MaxUnitCalls /\ call["c2"].op = "none" /\ InvokeWrite("c2", 0)
    \/ calls < MaxUnitCalls /\ call["c2"].op = "none" /\ InvokeTest("c2")
    \/ \E p \in Procs : ConnectSucceeds(p)
    \/ \E p \in Procs : Settle(p)
    \/ \E p \in Procs, outcome \in {"ok", "TimedOut"} : RequestDone(p, outcome)
    \/ \E p \in Procs : DelayDone(p)
    \/ OrphanLost
    \/ UpdateConfig([slaveId |-> 7], TRUE)

SpecUnit == InitUnit /\ [][NextUnit]_vars

(* SpecLive: a read or write overlapping with a connection test, against a   *)
(* device that may refuse connections, drop them and fail requests; every    *)
(* pending connect, pause, request and delay of a call eventually completes  *)

MaxLiveCalls == 2

InitLive ==
    /\ refuseAll \in BOOLEAN
    /\ counting = FALSE
    /\ Constructed(NoRecord, EnvHost)

\* The completion of whatever caller p is waiting for
Await(p) ==
    \/ ConnectSucceeds(p)
    \/ ConnectFails(p, "ECONNREFUSED")
    \/ Settle(p)
    \/ \E outcome \in {"ok", "ETIMEDOUT", "TimedOut"} : RequestDone(p, outcome)
    \/ DelayDone(p)

\* Each caller makes one call
NextLive ==
    \/ calls < MaxLiveCalls /\ call["c1"].op = "none" /\ InvokeRead("c1", 0, 1)
    \/ calls < MaxLiveCalls /\ call["c1"].op = "none" /\ InvokeWrite("c1", 0)
    \/ calls < MaxLiveCalls /\ call["c2"].op = "none" /\ InvokeTest("c2")
    \/ \E p \in Procs : Await(p)
    \/ \E h \in Handles : ConnectionLost(h)
    \/ OrphanLost

\* Weak fairness of Await(p): Node's event loop runs the continuation of every
\* completed connect, timer and request.  Await(p) is enabled exactly when p has
\* a call in flight (each of its disjuncts is guarded by one value of pc[p], and
\* a pending connect can always fail, a pending request always time out), so
\* WF_vars(Await(p)) is written with that condition in place of ENABLED
Fair(p) == []<>(pc[p] = "idle") \/ []<><<Await(p)>>_vars

SpecLive == InitLive /\ [][NextLive]_vars /\ \A p \in Procs : Fair(p)

(* SpecViews: one caller reading, writing and testing, another one asking for *)
(* the configuration and the status, with disconnect() and updates           *)

MaxViewCalls == 1

InitViews ==
    /\ refuseAll = FALSE
    /\ counting = FALSE
    /\ Constructed(NoRecord, EnvHost)

NextViews ==
    \/ calls < MaxViewCalls /\ InvokeRead("c1", 0, 1)
    \/ calls < MaxViewCalls /\ InvokeWrite("c1", 0)
    \/ calls < MaxViewCalls /\ InvokeTest("c1")
    \/ Progress({"c1"}, {"ECONNREFUSED"}, {"TimedOut"})
    \/ OrphanLost
    \/ Disconnect(TRUE)
    \/ UpdateConfig([port |-> 1502], TRUE)
    \/ \E change \in BOOLEAN : GetConfig("c2", change)
    \/ \E change \in BOOLEAN : GetConnectionStatus("c2", change)

SpecViews == InitViews /\ [][NextViews]_vars

----------------------------------------------------------------------------
(* Properties *)

InFlight(p) == pc[p] # "idle"

LiveHandles == {h \in Handles : hs[h].st \in {"connecting", "open"}}

\* C1: at most one handle created by the manager is open or connecting, and no
\* handle is open that the manager (this.client) does not refer to.
C1_SingleHandle ==
    /\ Cardinality(LiveHandles) + orphans <= 1
    /\ orphans = 0
    /\ \A h \in Handles : hs[h].st = "open" => client = h

\* C2: while an earlier call is still in flight, a later call has neither a
\* transport connect under way nor a register request out.
C2_Serialized ==
    \A p, q \in Procs :
        (InFlight(p) /\ InFlight(q) /\ call[p].id < call[q].id)
            => pc[q] \notin {"connecting", "request"}

\* C3: the first register requests of reads and writes go out in the order in
\* which the calls were invoked.
C3_FifoAdmission ==
    \A i, j \in 1..Len(issueLog) :
        (i < j /\ issueLog[i][2] \in {"read", "write"}
               /\ issueLog[j][2] \in {"read", "write"})
            => issueLog[i][1] < issueLog[j][1]

\* C4: a connection that was open or connecting when updateConfig ran is never
\* open afterwards, and no call has a request out on it.
C4_TeardownDrains ==
    /\ \A h \in Handles : hs[h].stale => hs[h].st # "open"
    /\ \A p \in Procs : pc[p] = "request" => ~hs[call[p].h].stale

\* The host as the data model states it: four dot-separated decimal numbers,
\* each at most 255, and neither 0.0.0.0 nor 255.255.255.255
DotsOf(s) == {i \in 1..Len(s) : s[i] = DOT}

IsOctetText(s) ==
    /\ Len(s) \in 1..3
    /\ \A i \in 1..Len(s) : s[i] \in 0..9
    /\ DecimalValue(s) \in 0..255

IsDeviceAddress(s) ==
    /\ Cardinality(DotsOf(s)) = 3
    /\ \E a, b, c \in DotsOf(s) :
          /\ a < b /\ b < c
          /\ IsOctetText(SubSeq(s, 1, a - 1))
          /\ IsOctetText(SubSeq(s, a + 1, b - 1))
          /\ IsOctetText(SubSeq(s, b + 1, c - 1))
          /\ IsOctetText(SubSeq(s, c + 1, Len(s)))
    /\ s # <<0, DOT, 0, DOT, 0, DOT, 0>>
    /\ s # <<2, 5, 5, DOT, 2, 5, 5, DOT, 2, 5, 5, DOT, 2, 5, 5>>

IsValidDeviceConfig(c) ==
    /\ IsDeviceAddress(c.host)
    /\ c.port \in 1..65535
    /\ c.slaveId \in 1..255

\* C5: after construction and after any sequence of accepted and rejected
\* updates, getConfig() is a valid device configuration.
C5_ConfigAlwaysValid == IsValidDeviceConfig(getConfig)

C5_Witness ==
    /\ lastUpdate.result \in {"InvalidIp", "InvalidPort", "InvalidSlaveId"}
    /\ getConfig.port = 65535
    /\ getConfig.host = Host_00_0_0_0

\* C6: after an update whose merge is valid, getConfig() is the previous
\* configuration with exactly the supplied fields replaced.
C6_MergedConfig ==
    (lastUpdate.result # "none"
        /\ IsValidDeviceConfig(Spread(lastUpdate.before, lastUpdate.newConfig)))
        => /\ lastUpdate.result = "ok"
           /\ \A f \in ConfigFields :
                 getConfig[f] = IF f \in DOMAIN lastUpdate.newConfig
                                THEN lastUpdate.newConfig[f]
                                ELSE lastUpdate.before[f]

C6_Witness ==
    /\ lastUpdate.result = "ok"
    /\ DOMAIN lastUpdate.newConfig = {"host"}
    /\ lastUpdate.newConfig.host # lastUpdate.before.host
    /\ getConfig.host = lastUpdate.newConfig.host
    /\ getConfig.port = 8502

\* C7: an update whose merge is invalid fails with a validation error and
\* leaves getConfig() as it was.
C7_RejectedUpdate ==
    (lastUpdate.result # "none"
        /\ ~IsValidDeviceConfig(Spread(lastUpdate.before, lastUpdate.newConfig)))
        => /\ lastUpdate.result \in {"InvalidIp", "InvalidPort", "InvalidSlaveId"}
           /\ getConfig = lastUpdate.before

C7_Witness ==
    /\ lastUpdate.result = "InvalidIp"
    /\ lastUpdate.newConfig = [host |-> Host_999_1_1_1]
    /\ getConfig = lastUpdate.before
    /\ getConfig.host = Host_10_0_0_5

\* C8: a read with the quantity outside 1..125 or the address outside 0..65535
\* fails with a validation error without a connect attempt or a register request.
C8_ReadValidatedFirst ==
    \A p \in Procs :
        (call[p].op = "read"
            /\ (call[p].addr \notin 0..65535 \/ call[p].qty \notin 1..125))
        => /\ pc[p] = "idle"
           /\ call[p].res \in {"BadAddress", "BadQuantity"}
           /\ call[p].nConn = 0
           /\ call[p].nReq = 0

C8_Witness ==
    /\ call["c1"].op = "read"
    /\ call["c1"].qty = 126
    /\ call["c1"].res = "BadQuantity"
    /\ client # 0
    /\ hs[client].st = "open"

\* C9: a write with the address outside 0..65535 fails with a validation error
\* without a connect attempt or a write request.
C9_WriteValidatedFirst ==
    \A p \in Procs :
        (call[p].op = "write" /\ call[p].addr \notin 0..65535)
        => /\ pc[p] = "idle"
           /\ call[p].nConn = 0
           /\ call[p].nReq = 0

\* C10: a read makes at most 3 reconnect attempts, each after the first preceded
\* by the 2 s reconnect delay; against a device that fails every connect it ends
\* with a connection error after exactly 3 reconnect attempts and 2 delays.
C10_RetryBound ==
    \A p \in Procs :
        call[p].op = "read"
        => /\ call[p].nReconn <= 3
           /\ call[p].nReconn >= 1 => call[p].nDelay = call[p].nReconn - 1
           /\ call[p].waited = 2000 * call[p].nDelay
           /\ (refuseAll /\ pc[p] = "idle")
                 => /\ call[p].res \in ConnectionErrors
                    /\ call[p].nReconn = 3
                    /\ call[p].nDelay = 2
                    /\ call[p].nReq = 0

C10_Witness ==
    /\ refuseAll
    /\ call["c1"].op = "read"
    /\ pc["c1"] = "idle"
    /\ call["c1"].res = "RootCauseRefused"
    /\ call["c1"].nReconn = 3
    /\ call["c1"].waited = 4000

\* C11: the operation body of a read or write runs at most twice per call: once
\* at first, and once more right after a reconnect attempt succeeded; the error
\* of that second run ends the call, with the reconnect attempts still at most 3.
C11_RetryOnce ==
    \A p \in Procs :
        call[p].op \in {"read", "write"}
        => /\ call[p].nOp <= 2
           /\ call[p].nReq <= 2
           /\ call[p].phase \in {"first", "reconnect"} => call[p].nOp = 1
           /\ call[p].phase = "retry" => call[p].nOp = 2 /\ call[p].nReconn \in 1..3
           /\ call[p].nOp = 2 => call[p].nReconn \in 1..3

C11_Witness ==
    /\ call["c1"].op = "write"
    /\ pc["c1"] = "idle"
    /\ call["c1"].nOp = 2
    /\ call["c1"].nReq = 2
    /\ call["c1"].nReconn = 2
    /\ call["c1"].res = "IllegalAddress"

\* C12: a read or write whose first run failed with a protocol-level error
\* (illegal data address) ends there with that error: no reconnect attempt and
\* no second run, whatever other calls did to the shared handle meanwhile.
C12_ProtocolErrorNotRetried ==
    \A p \in Procs :
        (call[p].op \in {"read", "write"} /\ call[p].firstErr = "IllegalAddress")
        => /\ pc[p] = "idle"
           /\ call[p].res = "IllegalAddress"

\* C13: a read or write whose first run ended with the transaction timeout takes
\* the retry path: at least one reconnect attempt is made for it.
C13_TimeoutRetried ==
    \A p \in Procs :
        (call[p].op \in {"read", "write"}
            /\ call[p].firstErr \in {"TimedOut", "ETIMEDOUT"})
        => call[p].nReconn >= 1

\* C14: a read or write that ended because all 3 reconnect attempts failed
\* surfaces the error of its first run, not the error of a reconnect attempt.
C14_OriginalErrorSurfaced ==
    \A p \in Procs :
        (call[p].op \in {"read", "write"} /\ pc[p] = "idle"
            /\ call[p].nReconn = 3 /\ call[p].nOp = 1)
        => call[p].res = call[p].firstErr

\* C15: from every reachable state and whether or not close() fails, disconnect()
\* does not throw, and a second disconnect() right after it does not throw,
\* calls close() on no handle and leaves the service as the first one left it.
C15_DisconnectIdempotent ==
    \A ok1, ok2 \in BOOLEAN :
        LET first == disconnectCall(Service, ok1)
            second == disconnectCall(first.w, ok2)
        IN /\ ~first.threw
           /\ ~second.threw
           /\ second.closes = 0
           /\ second.w = first.w

C15_Witness ==
    /\ client # 0
    /\ hs[client].st = "open"
    /\ pc["c1"] = "request"
    /\ disconnectCall(Service, FALSE).closes = 1
    /\ disconnectCall(Service, FALSE).w.client = 0

\* C16: a connection test makes exactly one, fresh, connect attempt and reports
\* success exactly when that transport connect succeeded, whatever the trial
\* read of holding register 0 did.
C16_TestResult ==
    \A p \in Procs :
        call[p].op = "test"
        => /\ call[p].nConn = 1
           /\ pc[p] = "idle" => (call[p].res = "TestOk" <=> call[p].connOk)

\* C17: after an updateConfig that reported success the stored record holds the
\* host, port, slaveId and timeout of the in-memory configuration.
C17_StoreMatchesConfig ==
    lastUpdate.result = "ok"
        => \A f \in ConfigFields : Has(saved, f) /\ saved[f] = config[f]

\* C18: after an accepted update the process can be started again under every
\* environment, and the manager constructed then returns from getConfig() the
\* value the update gave to each field it named.
C18_RestartRoundTrip ==
    /\ lastUpdate.result = "ok"
          => \A env \in RestartEnvironments :
                /\ ~loadConfigThrows(saved, env)
                /\ validateConfig(loadConfig(saved, env)) = "ok"
    /\ lastUpdate.result = "restarted"
          => \A f \in DOMAIN lastUpdate.newConfig :
                getConfig[f] = lastUpdate.newConfig[f]

\* The start-up value of a numeric field by the stated precedence: the stored
\* value when the record has the field, else the environment's when it is set,
\* else the default
ByPrecedence(savedConfig, f, env, name, dflt) ==
    IF Has(savedConfig, f) THEN savedConfig[f]
    ELSE IF Has(env, name) THEN DecimalValue(env[name])
    ELSE dflt

\* C19: under every environment, start-up from the stored record resolves each
\* field on its own as stored > environment > default (port 502, slaveId 1,
\* timeout 5000), and fails exactly when the host is in neither.
C19_StartupPrecedence ==
    \A env \in RestartEnvironments :
        LET hostKnown == Has(saved, "host") \/ Has(env, "MODBUS_HOST")
            loaded == loadConfig(saved, env)
        IN /\ loadConfigThrows(saved, env) <=> ~hostKnown
           /\ hostKnown
                 => /\ loaded.host = IF Has(saved, "host") THEN saved.host
                                      ELSE env.MODBUS_HOST
                    /\ loaded.port = ByPrecedence(saved, "port", env, "MODBUS_PORT", 502)
                    /\ loaded.slaveId =
                           ByPrecedence(saved, "slaveId", env, "MODBUS_SLAVE_ID", 1)
                    /\ loaded.timeout =
                           ByPrecedence(saved, "timeout", env, "MODBUS_TIMEOUT", 5000)

\* C20: a read of a valid kind, address and quantity that the device answered
\* with the list d returns success, the requested kind, and one value per
\* element of d: value i has address startAddress + i (i from 0) and the raw
\* value d[i] for holding and input registers, 1 or 0 for coils and discrete
\* inputs that are on or off.
C20_ReadValues ==
    \A p \in Procs :
        (call[p].op = "read" /\ pc[p] = "idle" /\ call[p].res = "ok")
        => LET d == call[p].data
               r == call[p].resp
           IN /\ r.success
              /\ r.type = call[p].kind
              /\ Len(r.values) = Len(d)
              /\ \A i \in 0..(Len(d) - 1) :
                    /\ r.values[i + 1].address = call[p].addr + i
                    /\ r.values[i + 1].rawValue =
                          IF call[p].kind \in {"holding", "input"} THEN d[i + 1]
                          ELSE IF d[i + 1] THEN 1 ELSE 0

C20_Witness ==
    /\ call["c1"].op = "read"
    /\ call["c1"].kind = "coil"
    /\ call["c1"].addr = 5
    /\ call["c1"].data = <<TRUE, FALSE>>
    /\ call["c1"].resp.values = <<[address |-> 5, rawValue |-> 1],
                                   [address |-> 6, rawValue |-> 0]>>
    /\ call["c1"].res = "ok"

\* C21: a read against a device that refuses every connection fails with the
\* connection-refused error, and its message names the host and the port of
\* the configuration in force when it is thrown.
C21_RefusedNamesHostPort ==
    [][\A p \in Procs :
          (refuseAll /\ pc[p] # "idle" /\ pc'[p] = "idle" /\ call'[p].op = "read")
          => /\ call'[p].res = "RootCauseRefused"
             /\ call'[p].msg.template = "RootCauseRefused"
             /\ call'[p].msg.host = {config.host}
             /\ call'[p].msg.port = {config.port}]_vars

C21_Witness ==
    /\ refuseAll
    /\ call["c1"].op = "read"
    /\ pc["c1"] = "idle"
    /\ call["c1"].res = "RootCauseRefused"
    /\ call["c1"].msg.host = {Host_192_168_1_50}
    /\ call["c1"].msg.port = {1502}
    /\ config.port = 1502

\* The error classes of the error model and the results that belong to them
ErrorClasses == ConnectionErrors \cup DeviceExceptions

\* C22: whenever a call ends with an error of one of the classes, the message
\* names the host, the port and the unit id of the configuration in force, and
\* errors of different classes have different templates.
C22_MessagesNameConfig ==
    [][\A p \in Procs :
          (pc[p] # "idle" /\ pc'[p] = "idle" /\ call'[p].res \in ErrorClasses)
          => /\ call'[p].msg.host = {config.host}
             /\ call'[p].msg.port = {config.port}
             /\ call'[p].msg.slaveId = {config.slaveId}
             /\ \A c \in AllConnectCodes :
                    ConnectMessage(c, config).template = call'[p].msg.template
                        => ConnectError(c) = call'[p].res]_vars

ValidationFailures == {"DtoRejected", "BadAddress", "BadQuantity", "BadType"}

\* C23: a read or write that failed is answered with status 400 when it failed
\* validation and 500 when the connection or the device failed, and a rejected
\* configuration update with 400; what a handler's catch block answers is the
\* envelope {success: false, error}; a read with the address above 65535 is
\* answered 400.
C23_HttpStatus ==
    /\ \A p \in Procs :
          (call[p].op \in {"read", "write"} /\ pc[p] = "idle" /\ call[p].res # "ok")
          => /\ call[p].body \in {"envelope", "pipe"}
             /\ call[p].status = IF call[p].res \in ValidationFailures THEN 400 ELSE 500
             /\ (call[p].op = "read" /\ call[p].addr > 65535) => call[p].status = 400
    /\ lastUpdate.result \notin {"none", "ok"}
          => /\ ConfigStatus(lastUpdate.result) = 400
             /\ ConfigBody(lastUpdate.result) \in {"envelope", "pipe"}

\* C24: on every step in which a read of any kind, a write or the trial read
\* of a connection test sends its register request, the handle it is sent on
\* has the unit id equal to the slaveId of the configuration at that moment.
C24_UnitIdAtIssue ==
    [][\A p \in Procs :
          (pc[p] # "request" /\ pc'[p] = "request")
          => /\ call'[p].h # 0
             /\ hs'[call'[p].h].st = "open"
             /\ hs'[call'[p].h].unit = config.slaveId]_vars

C24_Witness ==
    /\ pc["c1"] = "request" /\ call["c1"].op = "read" /\ call["c1"].kind = "coil"
    /\ pc["c2"] = "request" /\ call["c2"].op = "write"
    /\ call["c1"].h = call["c2"].h
    /\ config.slaveId = 7
    /\ hs[call["c1"].h].unit = 7
    /\ lastUpdate.result = "ok"

\* C25: every read, write and connection test that was invoked eventually
\* returns (with a result or an error), whatever the other caller does, given
\* that each of its connects, pauses, requests and delays completes.
C25_CallsComplete ==
    \A p \in Procs : (pc[p] # "idle") ~> (pc[p] = "idle")

C25_Witness ==
    /\ pc["c1"] = "idle" /\ call["c1"].op = "write"
    /\ call["c1"].res = "RootCauseRefused"
    /\ call["c1"].firstErr = "ETIMEDOUT"
    /\ pc["c2"] = "idle" /\ call["c2"].op = "test"
    /\ call["c2"].res = "TestOk"
    /\ call["c1"].id < call["c2"].id

\* C26: an updateConfig that succeeds leaves no connection open, starts no
\* connect, and leaves the status as connected = false with the host, port and
\* slaveId of the new configuration and without lastError and lastConnected;
\* and a call invoked later connects, or has its request out, on a handle
\* connected to the host and port of the configuration.
C26_UpdateTearsDown ==
    [][/\ (UpdateConfig([host |-> Host_10_0_0_5], TRUE) /\ lastUpdate'.result = "ok")
           => /\ \A h \in Handles : hs'[h].st # "open"
              /\ \A h \in Handles : hs'[h].st = "connecting" => hs[h].st = "connecting"
              /\ \A p \in Procs : call'[p].nConn = call[p].nConn
              /\ connectionStatus' =
                    [connected |-> FALSE, host |-> config'.host, port |-> config'.port,
                     slaveId |-> config'.slaveId, lastError |-> "none",
                     lastConnected |-> "none"]
       /\ \A p \in Procs :
              (calls' = calls + 1 /\ call'[p].id = calls'
                  /\ pc'[p] \in {"connecting", "request"})
              => /\ hs'[call'[p].h].host = config.host
                 /\ hs'[call'[p].h].port = config.port]_vars

\* C27: the manager starts with no connection and no connect under way, and a
\* handle starts connecting only in a step of a read, write or connection test
\* that then waits for that connect: never in a step of getConfig,
\* getConnectionStatus, updateConfig or disconnect.
C27_LazyConnect ==
    /\ client = 0
    /\ ~connectionStatus.connected
    /\ \A h \in Handles : hs[h].st = "none"
    /\ [][\A h \in Handles :
              (hs'[h].st = "connecting" /\ hs[h].st # "connecting")
              => \E p \in Procs :
                    /\ call'[p].op \in {"read", "write", "test"}
                    /\ pc'[p] = "connecting"
                    /\ call'[p].h = h
                    /\ pc[p] # "connecting" \/ call[p].h # h]_vars

C27_Witness ==
    /\ pc["c1"] = "connecting"
    /\ call["c1"].op = "write"
    /\ call["c1"].attempt = 2
    /\ call["c2"].op = "getStatus"
    /\ lastUpdate.result = "ok"
    /\ connectionStatus.lastError = "none"

\* C28: a step of getConfig() or getConnectionStatus(), whatever the caller
\* does to the object it was handed, changes neither the configuration, the
\* status, the handles nor the stored record, and no call's position.
C28_GettersPure ==
    [][(\E p \in Procs, change \in BOOLEAN :
            GetConfig(p, change) \/ GetConnectionStatus(p, change))
       => UNCHANGED <<config, connectionStatus, client, hs, orphans, saved,
                      reconnectAttempts, pc>>]_vars

\* The range the README gives for the device network: 192.168.100.x, x in 1..255
InDeviceRange(s) ==
    /\ Len(s) > 12
    /\ SubSeq(s, 1, 12) = <<1, 9, 2, DOT, 1, 6, 8, DOT, 1, 0, 0, DOT>>
    /\ IsOctetText(SubSeq(s, 13, Len(s)))
    /\ DecimalValue(SubSeq(s, 13, Len(s))) \in 1..255

C30_ReuseWhileConnected ==
    [][\A p \in Procs :
          /\ (/\ pc[p] = "idle"
              /\ pc'[p] # "idle"
              /\ call'[p].op \in {"read", "write"}
              /\ client # 0
              /\ hs[client].st = "open")
             => /\ pc'[p] = "request"
                /\ call'[p].h = client
                /\ call'[p].nConn = 0
                /\ client' = client
                /\ orphans' = orphans
                /\ \A h \in Handles : hs'[h].st = hs[h].st
          /\ (/\ pc[p] = "request"
              /\ pc'[p] = "idle"
              /\ call'[p].res = "ok")
             => /\ client' = client
                /\ call'[p].nConn = call[p].nConn
                /\ orphans' = orphans
                /\ \A h \in Handles : hs'[h].st = hs[h].st]_vars

C30_Witness ==
    /\ calls = 2
    /\ pc["c1"] = "idle"
    /\ call["c1"].id = 2
    /\ call["c1"].op = "write"
    /\ call["c1"].res = "ok"
    /\ call["c1"].nConn = 0
    /\ call["c1"].nReq = 1
    /\ Len(issueLog) = 2
    /\ client = 1
    /\ hs[1].st = "open"
    /\ \A h \in Handles \ {1} : hs[h].st = "none"
    /\ orphans = 0
    /\ connectionStatus.connected

\* C31: the step that ends a connect attempt leaves one of two states.  When
\* the attempt succeeded (getClient passes its 100 ms pause), this.client is an
\* open handle carrying the configured unit id, lastConnected is set, lastError
\* is cleared and the status says connected.  When connectTCP was rejected, the
\* manager holds no open handle (at most the connecting handle of the attempt
\* that follows at once), the status says not connected and lastError holds the
\* failure message.  A connection that the device dropped during the pause is
\* left aside.
C31_ConnectOutcome ==
    [][\A p \in Procs :
          /\ (Settle(p) /\ ~(client # 0 /\ hs[client].st = "none"))
                => /\ client' # 0
                   /\ hs'[client'].st = "open"
                   /\ hs'[client'].unit = config.slaveId
                   /\ connectionStatus'.connected
                   /\ connectionStatus'.lastConnected = "connectTime"
                   /\ connectionStatus'.lastError = "none"
          /\ \A code \in AllConnectCodes :
                ConnectFails(p, code)
                => /\ client' = 0 \/ hs'[client'].st = "connecting"
                   /\ ~connectionStatus'.connected
                   /\ connectionStatus'.lastError \in {code, ConnectError(code)}]_vars

\* C32: an open handle held by the manager, and every open handle a register
\* request is pending on, is connected to the host and port of the current
\* configuration.
C32_HandleFollowsConfig ==
    /\ (client # 0 /\ hs[client].st = "open")
          => hs[client].host = config.host /\ hs[client].port = config.port
    /\ \A p \in Procs :
          (pc[p] = "request" /\ hs[call[p].h].st = "open")
          => /\ hs[call[p].h].host = config.host
             /\ hs[call[p].h].port = config.port

\* C33: when the connectTCP a call awaited resolves, this.client is the handle
\* of that call and the call goes on to the pause (the connect is not turned into
\* a failure); and when getClient resolves after the pause, the handle it returns
\* is neither null nor a handle that is still connecting.
C33_OwnOpenHandle ==
    [][\A p \in Procs :
          /\ ConnectSucceeds(p) => client = call[p].h /\ pc'[p] = "settle"
          /\ Settle(p) => client # 0 /\ hs[client].st # "connecting"]_vars

\* C34: in every state, a status that getConnectionStatus() reports as
\* connected carries no lastError.
C34_ConnectedWithoutError ==
    getConnectionStatus.connected => getConnectionStatus.lastError = "none"

\* C35: in every state the host, port and slaveId that getConnectionStatus()
\* reports are those that getConfig() returns.
C35_StatusNamesConfig ==
    /\ getConnectionStatus.host = getConfig.host
    /\ getConnectionStatus.port = getConfig.port
    /\ getConnectionStatus.slaveId = getConfig.slaveId

C35_Witness ==
    /\ lastUpdate.result = "ok"
    /\ lastUpdate.before.port # getConfig.port
    /\ getConnectionStatus.port = 1502
    /\ getConnectionStatus.connected
    /\ call["c1"].op = "write"
    /\ call["c1"].res = "ok"
    /\ call["c2"].op = "getStatus"

\* C36: a configuration update that is rejected, by the service's validation or
\* by the request validation before it, leaves the configuration, the handle
\* and its connection, the connection status and the stored record as they
\* were.
C36_RejectedUpdateFrame ==
    [][\A body \in HttpBodies :
          (PostConfig(body, TRUE) /\ lastUpdate'.result # "ok")
          => UNCHANGED <<config, saved, client, hs, orphans, connectionStatus,
                         reconnectAttempts>>]_vars

C36_Witness ==
    /\ lastUpdate.result = "InvalidIp"
    /\ lastUpdate.newConfig = [host |-> Host_empty]
    /\ client # 0
    /\ hs[client].st = "open"
    /\ hs[client].port = 8502
    /\ connectionStatus.connected
    /\ connectionStatus.lastConnected = "connectTime"
    /\ config.port = 8502
    /\ saved # NoRecord
    /\ saved.port = 8502

\* C37: against a device that refuses every connection, a read or write that
\* passed validation has, when it returns, made exactly 4 connect attempts (the
\* lazy one and 3 reconnect attempts), waited the reconnect delay exactly twice,
\* issued no register request, and it fails with the error of a connect.
C37_RefusedCallCounts ==
    \A p \in Procs :
        (/\ refuseAll
         /\ pc[p] = "idle"
         /\ call[p].op \in {"read", "write"}
         /\ call[p].res \notin {"none"} \cup ValidationFailures)
        => /\ call[p].nConn = 1 + maxReconnectAttempts
           /\ call[p].nReconn = maxReconnectAttempts
           /\ call[p].nDelay = 2
           /\ call[p].waited = 2 * reconnectDelay
           /\ call[p].nReq = 0
           /\ ~call[p].issued
           /\ call[p].res \in ConnectionErrors

C37_Witness ==
    /\ refuseAll
    /\ pc["c1"] = "idle"
    /\ call["c1"].op = "write"
    /\ call["c1"].id = 2
    /\ call["c1"].res = "RootCauseRefused"
    /\ call["c1"].nConn = 4
    /\ call["c1"].nDelay = 2
    /\ call["c1"].nReq = 0
    /\ client = 0
    /\ ~connectionStatus.connected

\* C38: a testConnection() call makes one connect attempt, never a reconnect
\* attempt and never waits the reconnect delay; it always returns a value
\* (success true or false, never a thrown error, so the controller answers with
\* the result); and the step in which its connectTCP is rejected returns
\* success=false with the status not connected and lastError set to the
\* failure.
C38_TestNeverRetries ==
    [][\A p \in Procs :
          call'[p].op = "test"
          => /\ call'[p].nConn = 1
             /\ call'[p].nReconn = 0
             /\ call'[p].nDelay = 0
             /\ pc'[p] # "delay"
             /\ pc'[p] = "idle"
                   => /\ call'[p].res \in {"TestOk", "TestFailed"}
                      /\ call'[p].body = "result"
             /\ \A code \in AllConnectCodes :
                   ConnectFails(p, code)
                   => /\ pc'[p] = "idle"
                      /\ call'[p].res = "TestFailed"
                      /\ ~connectionStatus'.connected
                      /\ connectionStatus'.lastError = ConnectError(code)
                      /\ client' = 0]_vars

C38_Witness ==
    /\ pc["c1"] = "idle"
    /\ call["c1"].op = "test"
    /\ call["c1"].id = 2
    /\ call["c1"].res = "TestFailed"
    /\ call["c1"].nConn = 1
    /\ ~call["c1"].connOk
    /\ ~connectionStatus.connected
    /\ connectionStatus.lastError = "RootCauseTimeout"
    /\ connectionStatus.lastConnected = "connectTime"

\* C39: a read whose last address, startAddress + quantity - 1, lies above
\* 65535 never issues a register request, and every value a read returns has an
\* address in 0..65535.
C39_AddressesInRange ==
    \A p \in Procs :
        call[p].op = "read"
        => /\ call[p].addr + call[p].qty - 1 > MaxAddress => ~call[p].issued
           /\ \A i \in 1..Len(call[p].resp.values) :
                 /\ call[p].resp.values[i].address >= MinAddress
                 /\ call[p].resp.values[i].address <= MaxAddress

\* C40: reconnectAttempts is 0 whenever this.client is an open handle, and it
\* never exceeds maxReconnectAttempts.
C40_ReconnectCounter ==
    /\ (client # 0 /\ hs[client].st = "open") => reconnectAttempts = 0
    /\ reconnectAttempts <= maxReconnectAttempts

====
